---- MODULE Spec2Model ----
(***************************************************************************)
(* The protobuf codec of chain/x/peggy/types/types.pb.go: Size, Marshal    *)
(* and Unmarshal of BridgeValidator, Valset and GenericClaim, with         *)
(* encodeVarintTypes, sovTypes and skipTypes.                              *)
(*                                                                         *)
(* Representation.  A byte is a number in 0..255 and a buffer a sequence   *)
(* of bytes; Go's index i is the sequence's index i+1.  A 64-bit word      *)
(* (uint64, or int on a 64-bit build) is its sequence of base-128 digits,  *)
(* least significant first, without trailing zero digits: at most ten      *)
(* digits, the tenth being bit 63 alone.  <<>> is 0, <<44, 2>> is 300,     *)
(* <<0,0,0,0,0,0,0,0,0,1>> is 2^63.  An int is negative iff bit 63 is set. *)
(* int32 values (ClaimType, fieldNum) are integers in -2^31 .. 2^31-1.     *)
(* Strings and byte slices are sequences of bytes (nil is the empty one).  *)
(***************************************************************************)
EXTENDS Integers, Sequences, FiniteSets, TLC

\* ------------------------------------------------------------------------
\* 64-bit words as base-128 digits

\* Drop the zero digits above the most significant non-zero one.
RECURSIVE Norm(_)
Norm(d) ==
  IF d = <<>> THEN <<>>
  ELSE IF d[Len(d)] = 0 THEN Norm(SubSeq(d, 1, Len(d) - 1))
  ELSE d

\* uint64(n) of a small non-negative int n (a length, a size).
RECURSIVE FromNat(_)
FromNat(n) == IF n = 0 THEN <<>> ELSE <<n % 128>> \o FromNat(n \div 128)

\* The number a word of at most four digits stands for (below 2^28).
RECURSIVE ToNat(_)
ToNat(v) == IF v = <<>> THEN 0 ELSE Head(v) + 128 * ToNat(Tail(v))

Digit(v, k) == IF k <= Len(v) THEN v[k] ELSE 0

\* int < 0: bit 63, the tenth digit, is set.
I64Neg(v) == Len(v) = 10

\* int > n for a small n: not negative, and above 2^28 or above n.
I64Gt(v, n) == ~I64Neg(v) /\ (Len(v) > 4 \/ ToNat(v) > n)

\* a + b on 64 bits, wrapping around: digit by digit with the carry, the
\* tenth digit keeping bit 63 only.
RECURSIVE AddDigits(_, _, _, _)
AddDigits(a, b, k, carry) ==
  IF k > 10 THEN <<>>
  ELSE LET s == Digit(a, k) + Digit(b, k) + carry
           base == IF k = 10 THEN 2 ELSE 128
       IN <<s % base>> \o AddDigits(a, b, k + 1, s \div base)

I64Add(a, b) == Norm(AddDigits(a, b, 1, 0))

\* uint64(x) of an int32 x: sign extension to 64 bits.
Int32ToU64(x) ==
  IF x >= 0 THEN FromNat(x)
  ELSE LET u == (x + 1073741824) + 1073741824   \* bits 0..30 of the pattern
       IN << u % 128, (u \div 128) % 128, (u \div 16384) % 128,
             (u \div 2097152) % 128, (u \div 268435456) + 120,
             127, 127, 127, 127, 1 >>

\* The int32 whose bit pattern has `low` as bits 0..30 and `sign` as bit 31.
Int32Of(low, sign) ==
  IF sign = 0 THEN low ELSE (low - 1073741824) - 1073741824

\* ------------------------------------------------------------------------
\* Error values

ErrInvalidLengthTypes == "proto: negative length found during unmarshaling"
ErrIntOverflowTypes == "proto: integer overflow"
ErrUnexpectedEndOfGroupTypes == "proto: unexpected end of group"
ErrUnexpectedEOF == "unexpected EOF"
ErrEndGroup == "proto: wiretype end group for non-group"
ErrIllegalTag == "proto: illegal tag"
ErrWrongWireType == "proto: wrong wireType"
ErrIllegalWireType == "proto: illegal wireType"
\* A run-time panic of the Go program: index or slice bounds out of range.
Panic == "panic: runtime error: out of range"
\* Go's nil error.
Nil == "nil"

\* ------------------------------------------------------------------------
\* Size

\* math_bits.Len64 of a word: the position of its highest set bit.
RECURSIVE BitLen(_)
BitLen(n) == IF n = 0 THEN 0 ELSE 1 + BitLen(n \div 2)

Len64(v) == IF v = <<>> THEN 0 ELSE 7 * (Len(v) - 1) + BitLen(v[Len(v)])

\* x | 1
Or1(v) ==
  IF v = <<>> THEN <<1>>
  ELSE [v EXCEPT ![1] = IF v[1] % 2 = 0 THEN v[1] + 1 ELSE v[1]]

sovTypes(x) == (Len64(Or1(x)) + 6) \div 7

\* BridgeValidatorSize forgetting the tag byte of EthereumAddress.
BridgeValidatorSizeNoTag(m) ==
  LET l == Len(m.EthereumAddress)
  IN (IF m.Power # <<>> THEN 1 + sovTypes(m.Power) ELSE 0)
     + (IF l > 0 THEN l + sovTypes(FromNat(l)) ELSE 0)

BridgeValidatorSize(m) ==
  LET l == Len(m.EthereumAddress)
  IN (IF m.Power # <<>> THEN 1 + sovTypes(m.Power) ELSE 0)
     + (IF l > 0 THEN 1 + l + sovTypes(FromNat(l)) ELSE 0)

RECURSIVE MembersSize(_)
MembersSize(ms) ==
  IF ms = <<>> THEN 0
  ELSE LET l == BridgeValidatorSize(Head(ms))
       IN (1 + l + sovTypes(FromNat(l))) + MembersSize(Tail(ms))

ValsetSize(m) ==
  (IF m.Nonce # <<>> THEN 1 + sovTypes(m.Nonce) ELSE 0)
  + (IF Len(m.Members) > 0 THEN MembersSize(m.Members) ELSE 0)
  + (IF m.Height # <<>> THEN 1 + sovTypes(m.Height) ELSE 0)

GenericClaimSize(m) ==
  LET lh == Len(m.Hash)
      lc == Len(m.EventClaimer)
  IN (IF m.EventNonce # <<>> THEN 1 + sovTypes(m.EventNonce) ELSE 0)
     + (IF m.ClaimType # 0 THEN 1 + sovTypes(Int32ToU64(m.ClaimType)) ELSE 0)
     + (IF lh > 0 THEN 1 + lh + sovTypes(FromNat(lh)) ELSE 0)
     + (IF lc > 0 THEN 1 + lc + sovTypes(FromNat(lc)) ELSE 0)

\* ------------------------------------------------------------------------
\* Marshal.  The encoder's view of the buffer: E.dAtA the bytes, E.i the
\* write offset (moving toward 0), E.written the indices stored to so far,
\* E.panic whether a store or slice went out of range.  n is len(dAtA) of the
\* slice the function was handed.

\* dAtA[i] = b
Put(E, n, i, b) ==
  IF E.panic THEN E
  ELSE IF i < 0 \/ i >= n THEN [E EXCEPT !.panic = TRUE]
  ELSE [E EXCEPT !.dAtA[i + 1] = b, !.written = @ \cup {i}]

\* copy(dAtA[i:], s)
RECURSIVE CopyLoop(_, _, _, _, _)
CopyLoop(E, n, i, s, k) ==
  IF k > Len(s) \/ i + k - 1 >= n THEN E
  ELSE CopyLoop(Put(E, n, i + k - 1, s[k]), n, i, s, k + 1)

CopyAt(E, n, i, s) ==
  IF E.panic THEN E
  ELSE IF i < 0 \/ i > n THEN [E EXCEPT !.panic = TRUE]
  ELSE CopyLoop(E, n, i, s, 1)

RECURSIVE EncodeLoop(_, _, _, _)
EncodeLoop(E, n, offset, v) ==
  IF Len(v) >= 2
    THEN EncodeLoop(Put(E, n, offset, Digit(v, 1) + 128), n, offset + 1, Tail(v))
    ELSE Put(E, n, offset, Digit(v, 1))

\* i = encodeVarintTypes(dAtA, i, v)
encodeVarintTypes(E, n, v) ==
  LET base == E.i - sovTypes(v)
  IN [EncodeLoop(E, n, base, v) EXCEPT !.i = base]

\* A varint field: the value, then i--, then the tag byte.
PutVarintField(E, n, v, tag) ==
  LET a == encodeVarintTypes(E, n, v)
      b == [a EXCEPT !.i = @ - 1]
  IN Put(b, n, b.i, tag)

\* A string or bytes field: the payload, its length, then the tag byte.
PutBytesField(E, n, s, tag) ==
  LET a == [E EXCEPT !.i = @ - Len(s)]
      b == CopyAt(a, n, a.i, s)
  IN PutVarintField(b, n, FromNat(Len(s)), tag)

\* BridgeValidatorMarshalToSizedBuffer writing Power whatever its value.
BridgeValidatorMarshalUnguarded(m, E0, n) ==
  LET E1 == [E0 EXCEPT !.i = n]
      E2 == IF Len(m.EthereumAddress) > 0
              THEN PutBytesField(E1, n, m.EthereumAddress, 18) ELSE E1
  IN PutVarintField(E2, n, m.Power, 8)

BridgeValidatorMarshalToSizedBuffer(m, E0, n) ==
  LET E1 == [E0 EXCEPT !.i = n]
      E2 == IF Len(m.EthereumAddress) > 0
              THEN PutBytesField(E1, n, m.EthereumAddress, 18) ELSE E1
  IN IF m.Power # <<>> THEN PutVarintField(E2, n, m.Power, 8) ELSE E2

\* MembersLoop taking the members first to last while the buffer fills
\* backward: for iNdEx := 0; iNdEx < len(m.Members); iNdEx++
RECURSIVE MembersLoopForward(_, _, _, _)
MembersLoopForward(ms, E, n, iNdEx) ==
  IF iNdEx < 0 THEN E
  ELSE IF E.panic \/ E.i < 0 \/ E.i > n THEN [E EXCEPT !.panic = TRUE]
  ELSE LET sub == BridgeValidatorMarshalToSizedBuffer(ms[Len(ms) - iNdEx], E, E.i)
           size == E.i - sub.i
           a == [sub EXCEPT !.i = E.i - size]
       IN MembersLoopForward(ms, PutVarintField(a, n, FromNat(size), 18), n,
                             iNdEx - 1)

\* for iNdEx := len(m.Members) - 1; iNdEx >= 0; iNdEx--
RECURSIVE MembersLoop(_, _, _, _)
MembersLoop(ms, E, n, iNdEx) ==
  IF iNdEx < 0 THEN E
  ELSE IF E.panic \/ E.i < 0 \/ E.i > n THEN [E EXCEPT !.panic = TRUE]
  ELSE LET sub == BridgeValidatorMarshalToSizedBuffer(ms[iNdEx + 1], E, E.i)
           size == E.i - sub.i
           a == [sub EXCEPT !.i = E.i - size]
       IN MembersLoop(ms, PutVarintField(a, n, FromNat(size), 18), n, iNdEx - 1)

ValsetMarshalToSizedBuffer(m, E0, n) ==
  LET E1 == [E0 EXCEPT !.i = n]
      E2 == IF m.Height # <<>> THEN PutVarintField(E1, n, m.Height, 24) ELSE E1
      E3 == IF Len(m.Members) > 0
              THEN MembersLoop(m.Members, E2, n, Len(m.Members) - 1) ELSE E2
  IN IF m.Nonce # <<>> THEN PutVarintField(E3, n, m.Nonce, 8) ELSE E3

GenericClaimMarshalToSizedBuffer(m, E0, n) ==
  LET E1 == [E0 EXCEPT !.i = n]
      E2 == IF Len(m.EventClaimer) > 0
              THEN PutBytesField(E1, n, m.EventClaimer, 34) ELSE E1
      E3 == IF Len(m.Hash) > 0 THEN PutBytesField(E2, n, m.Hash, 26) ELSE E2
      E4 == IF m.ClaimType # 0
              THEN PutVarintField(E3, n, Int32ToU64(m.ClaimType), 16) ELSE E3
  IN IF m.EventNonce # <<>> THEN PutVarintField(E4, n, m.EventNonce, 8) ELSE E4

\* dAtA = make([]byte, size)
Make(size) ==
  [dAtA |-> [k \in 1..size |-> 0], i |-> size, written |-> {}, panic |-> FALSE]

\* Marshal's result: dAtA[:n], n and the stores made, or the panic.
Marshalled(E, size) ==
  LET n == size - E.i
  IN IF E.panic \/ n < 0 \/ n > size
       THEN [dAtA |-> <<>>, n |-> n, size |-> size, written |-> E.written,
             err |-> Panic]
       ELSE [dAtA |-> SubSeq(E.dAtA, 1, n), n |-> n, size |-> size,
             written |-> E.written, err |-> Nil]

BridgeValidatorMarshal(m) ==
  LET size == BridgeValidatorSize(m)
  IN Marshalled(BridgeValidatorMarshalToSizedBuffer(m, Make(size), size), size)

ValsetMarshal(m) ==
  LET size == ValsetSize(m)
  IN Marshalled(ValsetMarshalToSizedBuffer(m, Make(size), size), size)

GenericClaimMarshal(m) ==
  LET size == GenericClaimSize(m)
  IN Marshalled(GenericClaimMarshalToSizedBuffer(m, Make(size), size), size)

\* ------------------------------------------------------------------------
\* Unmarshal

\* err while Unmarshal has not returned.
Running == "running"

InRange(dAtA, i) == 0 <= i /\ i < Len(dAtA)

\* dAtA[lo:hi]
Slice(dAtA, lo, hi) == SubSeq(dAtA, lo + 1, hi)

SliceOK(dAtA, lo, hi) == 0 <= lo /\ lo <= hi /\ hi <= Len(dAtA)

\* VarintLoop testing iNdEx > l instead of iNdEx >= l before the read.
RECURSIVE VarintLoopOffByOne(_, _, _, _)
VarintLoopOffByOne(dAtA, iNdEx, shift, acc) ==
  IF shift >= 64
    THEN [err |-> ErrIntOverflowTypes, iNdEx |-> iNdEx, acc |-> acc]
  ELSE IF iNdEx > Len(dAtA)
    THEN [err |-> ErrUnexpectedEOF, iNdEx |-> iNdEx, acc |-> acc]
  ELSE IF ~InRange(dAtA, iNdEx)
    THEN [err |-> Panic, iNdEx |-> iNdEx, acc |-> acc]
  ELSE LET b == dAtA[iNdEx + 1]
           g == IF shift = 63 THEN (b % 128) % 2 ELSE b % 128
       IN IF b < 128
            THEN [err |-> Nil, iNdEx |-> iNdEx + 1, acc |-> Append(acc, g)]
            ELSE VarintLoopOffByOne(dAtA, iNdEx + 1, shift + 7, Append(acc, g))

\* VarintLoop giving up one group later: shift >= 71 instead of shift >= 64.
RECURSIVE VarintLoopWide(_, _, _, _)
VarintLoopWide(dAtA, iNdEx, shift, acc) ==
  IF shift >= 71
    THEN [err |-> ErrIntOverflowTypes, iNdEx |-> iNdEx, acc |-> acc]
  ELSE IF iNdEx >= Len(dAtA)
    THEN [err |-> ErrUnexpectedEOF, iNdEx |-> iNdEx, acc |-> acc]
  ELSE IF ~InRange(dAtA, iNdEx)
    THEN [err |-> Panic, iNdEx |-> iNdEx, acc |-> acc]
  ELSE LET b == dAtA[iNdEx + 1]
           g == IF shift >= 63 THEN (b % 128) % 2 ELSE b % 128
       IN IF b < 128
            THEN [err |-> Nil, iNdEx |-> iNdEx + 1, acc |-> Append(acc, g)]
            ELSE VarintLoopWide(dAtA, iNdEx + 1, shift + 7, Append(acc, g))

\* for shift := uint(0); ; shift += 7 { ... x |= uint64(b&0x7F) << shift ... }
\* acc holds the 7-bit groups read so far, one per shift; at shift 63 only
\* bit 0 of the group stays inside the 64-bit word.
RECURSIVE VarintLoop(_, _, _, _)
VarintLoop(dAtA, iNdEx, shift, acc) ==
  IF shift >= 64
    THEN [err |-> ErrIntOverflowTypes, iNdEx |-> iNdEx, acc |-> acc]
  ELSE IF iNdEx >= Len(dAtA)
    THEN [err |-> ErrUnexpectedEOF, iNdEx |-> iNdEx, acc |-> acc]
  ELSE IF ~InRange(dAtA, iNdEx)
    THEN [err |-> Panic, iNdEx |-> iNdEx, acc |-> acc]
  ELSE LET b == dAtA[iNdEx + 1]
           g == IF shift = 63 THEN (b % 128) % 2 ELSE b % 128
       IN IF b < 128
            THEN [err |-> Nil, iNdEx |-> iNdEx + 1, acc |-> Append(acc, g)]
            ELSE VarintLoop(dAtA, iNdEx + 1, shift + 7, Append(acc, g))

ReadVarint(dAtA, iNdEx) == VarintLoop(dAtA, iNdEx, 0, <<>>)

\* int32(wire >> 3): bits 3..34 of the tag.
FieldNum(acc) ==
  Int32Of((Digit(acc, 1) \div 8) + 16 * Digit(acc, 2) + 2048 * Digit(acc, 3)
            + 262144 * Digit(acc, 4) + 33554432 * (Digit(acc, 5) % 64),
          Digit(acc, 5) \div 64)

\* int(wire & 0x7)
WireType(acc) == Digit(acc, 1) % 8

\* ToInt32 losing bit 31: the sign of a negative ClaimType is dropped.
ToInt32NoSign(acc) ==
  Int32Of(Digit(acc, 1) + 128 * Digit(acc, 2) + 16384 * Digit(acc, 3)
            + 2097152 * Digit(acc, 4) + 268435456 * (Digit(acc, 5) % 8), 0)

\* The int32 built by m.ClaimType |= int32(b&0x7F) << shift: bits 0..31.
ToInt32(acc) ==
  Int32Of(Digit(acc, 1) + 128 * Digit(acc, 2) + 16384 * Digit(acc, 3)
            + 2097152 * Digit(acc, 4) + 268435456 * (Digit(acc, 5) % 8),
          (Digit(acc, 5) \div 8) % 2)

\* The varint loop of skipTypes, which keeps no value.
RECURSIVE SkipVarintLoop(_, _, _)
SkipVarintLoop(dAtA, iNdEx, shift) ==
  IF shift >= 64 THEN [err |-> ErrIntOverflowTypes, iNdEx |-> iNdEx]
  ELSE IF iNdEx >= Len(dAtA) THEN [err |-> ErrUnexpectedEOF, iNdEx |-> iNdEx]
  ELSE IF ~InRange(dAtA, iNdEx) THEN [err |-> Panic, iNdEx |-> iNdEx]
  ELSE IF dAtA[iNdEx + 1] < 128 THEN [err |-> Nil, iNdEx |-> iNdEx + 1]
  ELSE SkipVarintLoop(dAtA, iNdEx + 1, shift + 7)

\* What a case of skipTypes' switch leaves: the error, the cursor as an int
\* (it may exceed l) and the depth.
Skipped(err, idx, depth) == [err |-> err, idx |-> idx, depth |-> depth]

\* case 2, after the length varint v: if length < 0 {...}; iNdEx += length
SkipLength(v, depth) ==
  IF v.err # Nil THEN Skipped(v.err, FromNat(v.iNdEx), depth)
  ELSE IF I64Neg(Norm(v.acc))
    THEN Skipped(ErrInvalidLengthTypes, FromNat(v.iNdEx), depth)
  ELSE Skipped(Nil, I64Add(FromNat(v.iNdEx), Norm(v.acc)), depth)

\* case 0, after the varint loop s.
SkipVarint(s, depth) == Skipped(s.err, FromNat(s.iNdEx), depth)

\* SkipCase skipping eight bytes for wire type 5 as for wire type 1.
SkipCaseFixed32As64(dAtA, iNdEx, wireType, depth) ==
  CASE wireType = 0 -> SkipVarint(SkipVarintLoop(dAtA, iNdEx, 0), depth)
    [] wireType = 1 -> Skipped(Nil, FromNat(iNdEx + 8), depth)
    [] wireType = 2 -> SkipLength(ReadVarint(dAtA, iNdEx), depth)
    [] wireType = 3 -> Skipped(Nil, FromNat(iNdEx), depth + 1)
    [] wireType = 4 ->
         IF depth = 0
           THEN Skipped(ErrUnexpectedEndOfGroupTypes, FromNat(iNdEx), depth)
           ELSE Skipped(Nil, FromNat(iNdEx), depth - 1)
    [] wireType = 5 -> Skipped(Nil, FromNat(iNdEx + 8), depth)
    [] OTHER -> Skipped(ErrIllegalWireType, FromNat(iNdEx), depth)

\* One wire-type case of skipTypes' switch, entered with the cursor after
\* the tag.
SkipCase(dAtA, iNdEx, wireType, depth) ==
  CASE wireType = 0 -> SkipVarint(SkipVarintLoop(dAtA, iNdEx, 0), depth)
    [] wireType = 1 -> Skipped(Nil, FromNat(iNdEx + 8), depth)
    [] wireType = 2 -> SkipLength(ReadVarint(dAtA, iNdEx), depth)
    [] wireType = 3 -> Skipped(Nil, FromNat(iNdEx), depth + 1)
    [] wireType = 4 ->
         IF depth = 0
           THEN Skipped(ErrUnexpectedEndOfGroupTypes, FromNat(iNdEx), depth)
           ELSE Skipped(Nil, FromNat(iNdEx), depth - 1)
    [] wireType = 5 -> Skipped(Nil, FromNat(iNdEx + 4), depth)
    [] OTHER -> Skipped(ErrIllegalWireType, FromNat(iNdEx), depth)

\* skipTypes' result: the number of bytes to skip, as an int, and the error.
SkipRet(n, err) == [n |-> n, err |-> err]

RECURSIVE SkipLoop(_, _, _)

\* SkipAfterCase returning after the first field whatever the depth.
SkipAfterCaseNoDepth(dAtA, r) ==
  IF r.err # Nil THEN SkipRet(<<>>, r.err)
  ELSE IF I64Neg(r.idx) THEN SkipRet(<<>>, ErrInvalidLengthTypes)
  ELSE SkipRet(r.idx, Nil)

\* After the switch (r): if iNdEx < 0 {...}; if depth == 0 { return iNdEx, nil }
\* and the loop's test, iNdEx < l.
SkipAfterCase(dAtA, r) ==
  IF r.err # Nil THEN SkipRet(<<>>, r.err)
  ELSE IF I64Neg(r.idx) THEN SkipRet(<<>>, ErrInvalidLengthTypes)
  ELSE IF r.depth = 0 THEN SkipRet(r.idx, Nil)
  ELSE IF I64Gt(r.idx, Len(dAtA)) THEN SkipRet(<<>>, ErrUnexpectedEOF)
  ELSE SkipLoop(dAtA, ToNat(r.idx), r.depth)

\* After the tag varint t: wireType := int(wire & 0x7); switch wireType
SkipAfterTag(dAtA, t, depth) ==
  IF t.err # Nil THEN SkipRet(<<>>, t.err)
  ELSE SkipAfterCase(dAtA, SkipCase(dAtA, t.iNdEx, WireType(t.acc), depth))

\* for iNdEx < l { ... } return 0, io.ErrUnexpectedEOF
SkipLoop(dAtA, iNdEx, depth) ==
  IF ~(iNdEx < Len(dAtA)) THEN SkipRet(<<>>, ErrUnexpectedEOF)
  ELSE SkipAfterTag(dAtA, ReadVarint(dAtA, iNdEx), depth)

skipTypes(dAtA) == SkipLoop(dAtA, 0, 0)

\* The iterations of skipTypes' loop that reach the test of depth: for each,
\* the index pre its tag was read at, and iNdEx and depth after the switch.
RECURSIVE SkipTrace(_, _, _)

SkipTraceAfterCase(dAtA, pre, r) ==
  IF r.err # Nil \/ I64Neg(r.idx) THEN <<>>
  ELSE <<[pre |-> pre, idx |-> r.idx, depth |-> r.depth]>> \o
       (IF r.depth = 0 \/ I64Gt(r.idx, Len(dAtA)) THEN <<>>
        ELSE SkipTrace(dAtA, ToNat(r.idx), r.depth))

SkipTraceAfterTag(dAtA, pre, t, depth) ==
  IF t.err # Nil THEN <<>>
  ELSE SkipTraceAfterCase(dAtA, pre, SkipCase(dAtA, t.iNdEx, WireType(t.acc), depth))

SkipTrace(dAtA, iNdEx, depth) ==
  IF ~(iNdEx < Len(dAtA)) THEN <<>>
  ELSE SkipTraceAfterTag(dAtA, iNdEx, ReadVarint(dAtA, iNdEx), depth)

\* The three results of a step of Unmarshal: the receiver, the cursor and
\* the error (Running: the loop goes on).
Ret(m, iNdEx, err) == [m |-> m, iNdEx |-> iNdEx, err |-> err]

RunningOr(err) == IF err = Nil THEN Running ELSE err

\* The default case after skippy, err := skipTypes(dAtA[iNdEx:]), s: the
\* three checks of skippy, then iNdEx += skippy.
SkipChecked(m, dAtA, preIndex, s) ==
  IF s.err # Nil THEN Ret(m, preIndex, s.err)
  ELSE IF I64Neg(s.n) THEN Ret(m, preIndex, ErrInvalidLengthTypes)
  ELSE IF I64Neg(I64Add(FromNat(preIndex), s.n))
    THEN Ret(m, preIndex, ErrInvalidLengthTypes)
  ELSE IF I64Gt(I64Add(FromNat(preIndex), s.n), Len(dAtA))
    THEN Ret(m, preIndex, ErrUnexpectedEOF)
  ELSE Ret(m, ToNat(I64Add(FromNat(preIndex), s.n)), Running)

\* The default case of Unmarshal's switch: skip the field that starts at
\* preIndex.
SkipField(m, dAtA, preIndex) ==
  IF ~SliceOK(dAtA, preIndex, Len(dAtA)) THEN Ret(m, preIndex, Panic)
  ELSE SkipChecked(m, dAtA, preIndex, skipTypes(Slice(dAtA, preIndex, Len(dAtA))))

\* What the read of a length leaves: the error (Running: none), the
\* payload's start iNdEx and its end postIndex.
Span(err, iNdEx, postIndex) == [err |-> err, iNdEx |-> iNdEx, postIndex |-> postIndex]

\* LengthChecked without the test postIndex > l.
LengthCheckedNoEnd(dAtA, v) ==
  IF v.err # Nil THEN Span(v.err, v.iNdEx, v.iNdEx)
  ELSE IF I64Neg(Norm(v.acc)) THEN Span(ErrInvalidLengthTypes, v.iNdEx, v.iNdEx)
  ELSE IF I64Neg(I64Add(FromNat(v.iNdEx), Norm(v.acc)))
    THEN Span(ErrInvalidLengthTypes, v.iNdEx, v.iNdEx)
  ELSE IF ~SliceOK(dAtA, v.iNdEx, ToNat(I64Add(FromNat(v.iNdEx), Norm(v.acc))))
    THEN Span(Panic, v.iNdEx, v.iNdEx)
  ELSE Span(Running, v.iNdEx, ToNat(I64Add(FromNat(v.iNdEx), Norm(v.acc))))

\* After the length varint v: the checks of the length and of
\* postIndex := iNdEx + length.
LengthChecked(dAtA, v) ==
  IF v.err # Nil THEN Span(v.err, v.iNdEx, v.iNdEx)
  ELSE IF I64Neg(Norm(v.acc)) THEN Span(ErrInvalidLengthTypes, v.iNdEx, v.iNdEx)
  ELSE IF I64Neg(I64Add(FromNat(v.iNdEx), Norm(v.acc)))
    THEN Span(ErrInvalidLengthTypes, v.iNdEx, v.iNdEx)
  ELSE IF I64Gt(I64Add(FromNat(v.iNdEx), Norm(v.acc)), Len(dAtA))
    THEN Span(ErrUnexpectedEOF, v.iNdEx, v.iNdEx)
  ELSE IF ~SliceOK(dAtA, v.iNdEx, ToNat(I64Add(FromNat(v.iNdEx), Norm(v.acc))))
    THEN Span(Panic, v.iNdEx, v.iNdEx)
  ELSE Span(Running, v.iNdEx, ToNat(I64Add(FromNat(v.iNdEx), Norm(v.acc))))

\* A length-delimited field's length, entered with the cursor after the tag.
ReadLength(dAtA, iNdEx) == LengthChecked(dAtA, ReadVarint(dAtA, iNdEx))

\* TagChecked testing fieldNum == 0 instead of fieldNum <= 0.
TagCheckedNoSign(t) ==
  [err |-> IF t.err # Nil THEN t.err
           ELSE IF WireType(t.acc) = 4 THEN ErrEndGroup
           ELSE IF FieldNum(t.acc) = 0 THEN ErrIllegalTag
           ELSE Running,
   iNdEx |-> t.iNdEx, fieldNum |-> FieldNum(t.acc), wireType |-> WireType(t.acc)]

\* After the tag varint t: fieldNum, wireType and Unmarshal's two checks.
TagChecked(t) ==
  [err |-> IF t.err # Nil THEN t.err
           ELSE IF WireType(t.acc) = 4 THEN ErrEndGroup
           ELSE IF FieldNum(t.acc) <= 0 THEN ErrIllegalTag
           ELSE Running,
   iNdEx |-> t.iNdEx, fieldNum |-> FieldNum(t.acc), wireType |-> WireType(t.acc)]

ReadTag(dAtA, iNdEx) == TagChecked(ReadVarint(dAtA, iNdEx))

\* A uint64 field after its varint loop v: m.F = 0; m.F |= uint64(b&0x7F) << shift
Uint64Field(m, name, v) ==
  Ret([m EXCEPT ![name] = Norm(v.acc)], v.iNdEx, RunningOr(v.err))

\* The int32 field after its varint loop v: m.F |= int32(b&0x7F) << shift
Int32Field(m, name, v) ==
  Ret([m EXCEPT ![name] = ToInt32(v.acc)], v.iNdEx, RunningOr(v.err))

\* A string or bytes field after its length p: m.F = dAtA[iNdEx:postIndex]
BytesField(m, name, dAtA, p) ==
  IF p.err # Running THEN Ret(m, p.iNdEx, p.err)
  ELSE Ret([m EXCEPT ![name] = Slice(dAtA, p.iNdEx, p.postIndex)], p.postIndex,
           Running)

\* if iNdEx > l { return io.ErrUnexpectedEOF }; return nil
UnmarshalEnd(dAtA, iNdEx) == IF iNdEx > Len(dAtA) THEN ErrUnexpectedEOF ELSE Nil

BridgeValidatorZero == [Power |-> <<>>, EthereumAddress |-> <<>>]

\* BridgeValidatorField treating a known field number with another wire
\* type as an unknown field.
BridgeValidatorFieldLenient(m, dAtA, preIndex, t) ==
  IF t.err # Running THEN Ret(m, t.iNdEx, t.err)
  ELSE CASE t.fieldNum = 1 /\ t.wireType = 0 ->
              Uint64Field(m, "Power", ReadVarint(dAtA, t.iNdEx))
         [] t.fieldNum = 2 /\ t.wireType = 2 ->
              BytesField(m, "EthereumAddress", dAtA, ReadLength(dAtA, t.iNdEx))
         [] OTHER -> SkipField(m, dAtA, preIndex)

\* BridgeValidator.Unmarshal's switch, after the tag t read at preIndex.
BridgeValidatorField(m, dAtA, preIndex, t) ==
  IF t.err # Running THEN Ret(m, t.iNdEx, t.err)
  ELSE CASE t.fieldNum = 1 ->
              IF t.wireType # 0 THEN Ret(m, t.iNdEx, ErrWrongWireType)
              ELSE Uint64Field(m, "Power", ReadVarint(dAtA, t.iNdEx))
         [] t.fieldNum = 2 ->
              IF t.wireType # 2 THEN Ret(m, t.iNdEx, ErrWrongWireType)
              ELSE BytesField(m, "EthereumAddress", dAtA, ReadLength(dAtA, t.iNdEx))
         [] OTHER -> SkipField(m, dAtA, preIndex)

\* One iteration of BridgeValidator.Unmarshal's loop.
BridgeValidatorIter(m, dAtA, iNdEx) ==
  BridgeValidatorField(m, dAtA, iNdEx, ReadTag(dAtA, iNdEx))

RECURSIVE BridgeValidatorLoop(_, _, _)

BridgeValidatorNext(dAtA, r) ==
  IF r.err # Running THEN r ELSE BridgeValidatorLoop(r.m, dAtA, r.iNdEx)

BridgeValidatorLoop(m, dAtA, iNdEx) ==
  IF iNdEx < Len(dAtA)
    THEN BridgeValidatorNext(dAtA, BridgeValidatorIter(m, dAtA, iNdEx))
    ELSE Ret(m, iNdEx, UnmarshalEnd(dAtA, iNdEx))

BridgeValidatorUnmarshal(m, dAtA) == BridgeValidatorLoop(m, dAtA, 0)

ValsetZero == [Nonce |-> <<>>, Members |-> <<>>, Height |-> <<>>]

\* MemberAppended replacing Members by the decoded member instead of
\* appending to it.
MemberReplaced(m, p, e) ==
  IF e.err # Nil THEN Ret([m EXCEPT !.Members = <<e.m>>], p.iNdEx, e.err)
  ELSE Ret([m EXCEPT !.Members = <<e.m>>], p.postIndex, Running)

\* After the member's own Unmarshal, e:
\* m.Members = append(m.Members, &BridgeValidator{}); if err != nil { return err }
MemberAppended(m, p, e) ==
  IF e.err # Nil THEN Ret([m EXCEPT !.Members = Append(@, e.m)], p.iNdEx, e.err)
  ELSE Ret([m EXCEPT !.Members = Append(@, e.m)], p.postIndex, Running)

\* Field 2 of Valset after its length p.
MemberField(m, dAtA, p) ==
  IF p.err # Running THEN Ret(m, p.iNdEx, p.err)
  ELSE MemberAppended(m, p, BridgeValidatorUnmarshal(BridgeValidatorZero,
                                 Slice(dAtA, p.iNdEx, p.postIndex)))

\* Valset.Unmarshal's switch, after the tag t read at preIndex.
ValsetField(m, dAtA, preIndex, t) ==
  IF t.err # Running THEN Ret(m, t.iNdEx, t.err)
  ELSE CASE t.fieldNum = 1 ->
              IF t.wireType # 0 THEN Ret(m, t.iNdEx, ErrWrongWireType)
              ELSE Uint64Field(m, "Nonce", ReadVarint(dAtA, t.iNdEx))
         [] t.fieldNum = 2 ->
              IF t.wireType # 2 THEN Ret(m, t.iNdEx, ErrWrongWireType)
              ELSE MemberField(m, dAtA, ReadLength(dAtA, t.iNdEx))
         [] t.fieldNum = 3 ->
              IF t.wireType # 0 THEN Ret(m, t.iNdEx, ErrWrongWireType)
              ELSE Uint64Field(m, "Height", ReadVarint(dAtA, t.iNdEx))
         [] OTHER -> SkipField(m, dAtA, preIndex)

\* One iteration of Valset.Unmarshal's loop.
ValsetIter(m, dAtA, iNdEx) == ValsetField(m, dAtA, iNdEx, ReadTag(dAtA, iNdEx))

GenericClaimZero ==
  [EventNonce |-> <<>>, ClaimType |-> 0, Hash |-> <<>>, EventClaimer |-> <<>>]

\* GenericClaim.Unmarshal's switch, after the tag t read at preIndex.
GenericClaimField(m, dAtA, preIndex, t) ==
  IF t.err # Running THEN Ret(m, t.iNdEx, t.err)
  ELSE CASE t.fieldNum = 1 ->
              IF t.wireType # 0 THEN Ret(m, t.iNdEx, ErrWrongWireType)
              ELSE Uint64Field(m, "EventNonce", ReadVarint(dAtA, t.iNdEx))
         [] t.fieldNum = 2 ->
              IF t.wireType # 0 THEN Ret(m, t.iNdEx, ErrWrongWireType)
              ELSE Int32Field(m, "ClaimType", ReadVarint(dAtA, t.iNdEx))
         [] t.fieldNum = 3 ->
              IF t.wireType # 2 THEN Ret(m, t.iNdEx, ErrWrongWireType)
              ELSE BytesField(m, "Hash", dAtA, ReadLength(dAtA, t.iNdEx))
         [] t.fieldNum = 4 ->
              IF t.wireType # 2 THEN Ret(m, t.iNdEx, ErrWrongWireType)
              ELSE BytesField(m, "EventClaimer", dAtA, ReadLength(dAtA, t.iNdEx))
         [] OTHER -> SkipField(m, dAtA, preIndex)

\* One iteration of GenericClaim.Unmarshal's loop.
GenericClaimIter(m, dAtA, iNdEx) ==
  GenericClaimField(m, dAtA, iNdEx, ReadTag(dAtA, iNdEx))

\* One iteration of Unmarshal's loop, by record kind.
Iter(k, m, dAtA, iNdEx) ==
  CASE k = "BridgeValidator" -> BridgeValidatorIter(m, dAtA, iNdEx)
    [] k = "Valset" -> ValsetIter(m, dAtA, iNdEx)
    [] k = "GenericClaim" -> GenericClaimIter(m, dAtA, iNdEx)

RECURSIVE DecodeLoop(_, _, _, _)

DecodeNext(k, dAtA, r) ==
  IF r.err # Running THEN r ELSE DecodeLoop(k, r.m, dAtA, r.iNdEx)

DecodeLoop(k, m, dAtA, iNdEx) ==
  IF iNdEx < Len(dAtA) THEN DecodeNext(k, dAtA, Iter(k, m, dAtA, iNdEx))
  ELSE Ret(m, iNdEx, UnmarshalEnd(dAtA, iNdEx))

\* m.Unmarshal(dAtA), by record kind: the receiver and the error returned.
Decode(k, m, dAtA) == DecodeLoop(k, m, dAtA, 0)

\* ------------------------------------------------------------------------
\* Bounds and inputs

\* Members of a Valset handed to Marshal.
MaxMembers == 2
\* Fields in a hand-assembled buffer.
MaxParts == 2
\* Bytes in an arbitrary buffer.
MaxRaw == 4

Kinds == {"BridgeValidator", "Valset", "GenericClaim"}

SeqsUpTo(S, n) == UNION {[1..k -> S] : k \in 0..n}

\* int32 values: 0, 1, -1, 2^31-1, -2^31.
Int32Values == {0, 1, -1, 2147483647, (-2147483647) - 1}

BridgeValidators ==
  [Power : {<<>>, <<1>>, <<44, 2>>, <<127, 127, 127, 127, 127, 127, 127, 127, 127, 1>>},
   EthereumAddress : {<<>>, <<48>>, <<48, 120>>}]

MemberValues ==
  { BridgeValidatorZero,
    [Power |-> <<1>>, EthereumAddress |-> <<>>],
    [Power |-> <<>>, EthereumAddress |-> <<48>>],
    [Power |-> <<44, 2>>, EthereumAddress |-> <<48, 120>>] }

Valsets ==
  [Nonce : {<<>>, <<1>>}, Members : SeqsUpTo(MemberValues, MaxMembers),
   Height : {<<>>, <<0, 1>>}]

GenericClaims ==
  [EventNonce : {<<>>, <<44, 2>>}, ClaimType : Int32Values,
   Hash : {<<>>, <<0>>, <<255, 8>>}, EventClaimer : {<<>>, <<48>>}]

Records(k) ==
  CASE k = "BridgeValidator" -> BridgeValidators
    [] k = "Valset" -> Valsets
    [] k = "GenericClaim" -> GenericClaims

Zero(k) ==
  CASE k = "BridgeValidator" -> BridgeValidatorZero
    [] k = "Valset" -> ValsetZero
    [] k = "GenericClaim" -> GenericClaimZero

\* A receiver that was used before: every field differs from its zero value.
Used(k) ==
  CASE k = "BridgeValidator" -> [Power |-> <<7>>, EthereumAddress |-> <<122>>]
    [] k = "Valset" ->
         [Nonce |-> <<7>>, Height |-> <<9>>,
          Members |-> <<[Power |-> <<7>>, EthereumAddress |-> <<122>>]>>]
    [] k = "GenericClaim" ->
         [EventNonce |-> <<7>>, ClaimType |-> 7, Hash |-> <<9>>,
          EventClaimer |-> <<122>>]

\* ------------------------------------------------------------------------
\* Hand-assembled wire fields.  A field is its bytes with what they are meant
\* to be: the field number and wire type of its tag, its class (known: a
\* field of the record with its wire type; unknown: a field number the
\* record does not have; mismatch: a field of the record with another wire
\* type; bad: malformed), and for a known field its name and a record
\* holding the value it carries.

Fld(bytes, num, wire, class, name, rec) ==
  [bytes |-> bytes, num |-> num, wire |-> wire, class |-> class,
   name |-> name, rec |-> rec]

Rep(b, n) == [k \in 1..n |-> b]

KnownFields(k) ==
  CASE k = "BridgeValidator" ->
         { Fld(<<8, 172, 2>>, 1, 0, "known", "Power",
               [BridgeValidatorZero EXCEPT !.Power = <<44, 2>>]),
           Fld(<<8, 128, 0>>, 1, 0, "known", "Power", BridgeValidatorZero),
           Fld(<<18, 1, 48>>, 2, 2, "known", "EthereumAddress",
               [BridgeValidatorZero EXCEPT !.EthereumAddress = <<48>>]),
           Fld(<<18, 0>>, 2, 2, "known", "EthereumAddress", BridgeValidatorZero) }
    [] k = "Valset" ->
         { Fld(<<8, 1>>, 1, 0, "known", "Nonce", [ValsetZero EXCEPT !.Nonce = <<1>>]),
           Fld(<<18, 0>>, 2, 2, "known", "Members",
               [ValsetZero EXCEPT !.Members = <<BridgeValidatorZero>>]),
           Fld(<<18, 2, 8, 1>>, 2, 2, "known", "Members",
               [ValsetZero EXCEPT !.Members =
                  <<[Power |-> <<1>>, EthereumAddress |-> <<>>]>>]),
           Fld(<<18, 7, 40, 5, 18, 1, 48, 8, 2>>, 2, 2, "known", "Members",
               [ValsetZero EXCEPT !.Members =
                  <<[Power |-> <<2>>, EthereumAddress |-> <<48>>]>>]),
           Fld(<<24, 128, 1>>, 3, 0, "known", "Height",
               [ValsetZero EXCEPT !.Height = <<0, 1>>]) }
    [] k = "GenericClaim" ->
         { Fld(<<8, 1>>, 1, 0, "known", "EventNonce",
               [GenericClaimZero EXCEPT !.EventNonce = <<1>>]),
           Fld(<<16, 1>>, 2, 0, "known", "ClaimType",
               [GenericClaimZero EXCEPT !.ClaimType = 1]),
           Fld(<<16, 255, 255, 255, 255, 15>>, 2, 0, "known", "ClaimType",
               [GenericClaimZero EXCEPT !.ClaimType = -1]),
           Fld(<<26, 1, 0>>, 3, 2, "known", "Hash",
               [GenericClaimZero EXCEPT !.Hash = <<0>>]),
           Fld(<<34, 1, 48>>, 4, 2, "known", "EventClaimer",
               [GenericClaimZero EXCEPT !.EventClaimer = <<48>>]) }

\* Field 5 with each wire type, a group, a group that holds a group of
\* field 6 and a payload byte equal to an end-group tag, and field 16 (a
\* two-byte tag).
UnknownFields(k) ==
  { Fld(<<40, 172, 2>>, 5, 0, "unknown", "", Zero(k)),
    Fld(<<41, 1, 2, 3, 4, 5, 6, 7, 8>>, 5, 1, "unknown", "", Zero(k)),
    Fld(<<42, 2, 8, 1>>, 5, 2, "unknown", "", Zero(k)),
    Fld(<<42, 0>>, 5, 2, "unknown", "", Zero(k)),
    Fld(<<45, 1, 2, 3, 4>>, 5, 5, "unknown", "", Zero(k)),
    Fld(<<43, 40, 1, 44>>, 5, 3, "unknown", "", Zero(k)),
    Fld(<<43, 51, 42, 1, 44, 52, 44>>, 5, 3, "unknown", "", Zero(k)),
    Fld(<<128, 1, 5>>, 16, 0, "unknown", "", Zero(k)) }

MismatchFields(k) ==
  CASE k = "BridgeValidator" ->
         { Fld(<<10, 1, 48>>, 1, 2, "mismatch", "Power", Zero(k)),
           Fld(<<13, 1, 2, 3, 4>>, 1, 5, "mismatch", "Power", Zero(k)),
           Fld(<<16, 1>>, 2, 0, "mismatch", "EthereumAddress", Zero(k)) }
    [] k = "Valset" ->
         { Fld(<<10, 0>>, 1, 2, "mismatch", "Nonce", Zero(k)),
           Fld(<<16, 1>>, 2, 0, "mismatch", "Members", Zero(k)),
           Fld(<<26, 0>>, 3, 2, "mismatch", "Height", Zero(k)) }
    [] k = "GenericClaim" ->
         { Fld(<<10, 0>>, 1, 2, "mismatch", "EventNonce", Zero(k)),
           Fld(<<18, 0>>, 2, 2, "mismatch", "ClaimType", Zero(k)),
           Fld(<<24, 1>>, 3, 0, "mismatch", "Hash", Zero(k)),
           Fld(<<33, 1, 2, 3, 4, 5, 6, 7, 8>>, 4, 1, "mismatch", "EventClaimer", Zero(k)) }

\* The tag byte of a length-delimited field of the record.
LenTag(k) == IF k = "GenericClaim" THEN 26 ELSE 18

\* Malformed fields: varints of ten continuation bytes, cut varints, lengths
\* that are negative or overflow the cursor, cut payloads, illegal tags
\* (end-group wire type; field number 0, and 2^31, 2^32-1 and 2^32 which
\* int32(wire >> 3) makes -2^31, -1 and 0), groups left open (a nested
\* group closed once, an end-group byte that is a payload, a fixed-width
\* field that runs past the end).
BadFields(k) ==
  { Fld(Rep(128, 10), 0, 0, "bad", "", Zero(k)),
    Fld(<<8>> \o Rep(255, 10), 1, 0, "bad", "", Zero(k)),
    Fld(<<8, 128>>, 1, 0, "bad", "", Zero(k)),
    Fld(<<LenTag(k)>> \o Rep(255, 9) \o <<1>>, 2, 2, "bad", "", Zero(k)),
    Fld(<<LenTag(k)>> \o Rep(255, 8) \o <<127>>, 2, 2, "bad", "", Zero(k)),
    Fld(<<LenTag(k), 3, 48>>, 2, 2, "bad", "", Zero(k)),
    Fld(<<40>> \o Rep(128, 10), 5, 0, "bad", "", Zero(k)),
    Fld(<<42>> \o Rep(255, 9) \o <<1>>, 5, 2, "bad", "", Zero(k)),
    Fld(<<42>> \o Rep(255, 8) \o <<127>>, 5, 2, "bad", "", Zero(k)),
    Fld(<<42, 245>> \o Rep(255, 7) \o <<127>>, 5, 2, "bad", "", Zero(k)),
    Fld(<<41, 1, 2>>, 5, 1, "bad", "", Zero(k)),
    Fld(<<43, 40, 1>>, 5, 3, "bad", "", Zero(k)),
    Fld(<<44>>, 5, 4, "bad", "", Zero(k)),
    Fld(<<46, 1>>, 5, 6, "bad", "", Zero(k)),
    Fld(<<2, 0>>, 0, 2, "bad", "", Zero(k)),
    Fld(<<4>>, 0, 4, "bad", "", Zero(k)),
    Fld(<<128, 128, 128, 128, 64, 1>>, -2147483647 - 1, 0, "bad", "", Zero(k)),
    Fld(<<250, 255, 255, 255, 127, 1, 48>>, -1, 2, "bad", "", Zero(k)),
    Fld(<<43, 51, 44>>, 5, 3, "bad", "", Zero(k)),
    Fld(<<43, 42, 1, 44>>, 5, 3, "bad", "", Zero(k)),
    Fld(<<43, 41, 1, 44>>, 5, 3, "bad", "", Zero(k)),
    Fld(<<128, 128, 128, 128, 128, 1, 1>>, 0, 0, "bad", "", Zero(k)) }

RECURSIVE Bytes(_)
Bytes(parts) == IF parts = <<>> THEN <<>> ELSE Head(parts).bytes \o Bytes(Tail(parts))

\* Well-formed fields, then at most one field that ends the decoding.
PartLists(k) ==
  { body \o tail :
      body \in SeqsUpTo(KnownFields(k) \cup UnknownFields(k), MaxParts),
      tail \in {<<>>} \cup {<<f>> : f \in MismatchFields(k) \cup BadFields(k)} }

\* Bytes an arbitrary buffer is made of: tags of field 0, 1, 2 and 5 (a
\* group's start and end among them), a continuation byte and small values.
RawBytes == {0, 1, 8, 18, 43, 44, 128}

\* ------------------------------------------------------------------------
\* The state machine: a record is marshalled and the bytes, whole or cut
\* short, are unmarshalled into a receiver; or bytes that did not come
\* from Marshal (assembled from fields, or arbitrary) are unmarshalled.

VARIABLES
  kind,    \* the record kind of the call
  origin,  \* where dAtA comes from: "Marshal", "Prefix", "Fields", "Bytes"
  src,     \* the record Marshal is called on
  enc,     \* what Marshal returned
  parts,   \* the fields a hand-assembled dAtA is made of
  dAtA,    \* the bytes handed to Unmarshal
  prior,   \* the receiver as it was when Unmarshal was called
  m,       \* the receiver of Unmarshal
  iNdEx,   \* Unmarshal's cursor
  err,     \* Unmarshal's result (Running until it returns)
  pc       \* "made", "wire", "loop", "done"

vars == <<kind, origin, src, enc, parts, dAtA, prior, m, iNdEx, err, pc>>

NoEnc == [dAtA |-> <<>>, n |-> 0, size |-> 0, written |-> {}, err |-> Nil]

InitMarshal ==
  /\ pc = "made" /\ origin = "Marshal"
  /\ kind \in Kinds
  /\ src \in Records(kind)
  /\ prior \in {Zero(kind), Used(kind)}
  /\ parts = <<>> /\ dAtA = <<>>

InitFields ==
  /\ pc = "wire" /\ origin = "Fields"
  /\ kind \in Kinds
  /\ src = Zero(kind)
  /\ parts \in PartLists(kind)
  /\ prior \in {Zero(kind)} \cup
               (IF \A k \in 1..Len(parts) : parts[k].class \in {"known", "unknown"}
                  THEN {Used(kind)} ELSE {})
  /\ dAtA = Bytes(parts)

InitBytes ==
  /\ pc = "wire" /\ origin = "Bytes"
  /\ kind \in Kinds
  /\ src = Zero(kind)
  /\ prior = Zero(kind)
  /\ parts = <<>>
  /\ dAtA \in SeqsUpTo(RawBytes, MaxRaw)

Init ==
  /\ (InitMarshal \/ InitFields \/ InitBytes)
  /\ enc = NoEnc /\ m = prior /\ iNdEx = 0 /\ err = Running

Marshalling(result) ==
  /\ pc = "made"
  /\ enc' = result
  /\ dAtA' = result.dAtA
  /\ pc' = IF result.err = Nil THEN "wire" ELSE "done"
  /\ UNCHANGED <<kind, origin, src, parts, prior, m, iNdEx, err>>

MarshalBridgeValidator ==
  kind = "BridgeValidator" /\ Marshalling(BridgeValidatorMarshal(src))

MarshalValset == kind = "Valset" /\ Marshalling(ValsetMarshal(src))

MarshalGenericClaim ==
  kind = "GenericClaim" /\ Marshalling(GenericClaimMarshal(src))

\* The bytes reach the decoder cut short: a strict prefix of the encoding.
Truncate ==
  /\ pc = "wire" /\ origin = "Marshal"
  /\ \E k \in 0..(Len(dAtA) - 1) : dAtA' = SubSeq(dAtA, 1, k)
  /\ origin' = "Prefix"
  /\ UNCHANGED <<kind, src, enc, parts, prior, m, iNdEx, err, pc>>

\* l := len(dAtA); iNdEx := 0
EnterUnmarshal ==
  /\ pc = "wire"
  /\ pc' = "loop" /\ iNdEx' = 0
  /\ UNCHANGED <<kind, origin, src, enc, parts, dAtA, prior, m, err>>

\* One iteration of for iNdEx < l { ... }
Iteration(r) ==
  /\ pc = "loop" /\ iNdEx < Len(dAtA)
  /\ m' = r.m /\ iNdEx' = r.iNdEx /\ err' = r.err
  /\ pc' = IF r.err = Running THEN "loop" ELSE "done"
  /\ UNCHANGED <<kind, origin, src, enc, parts, dAtA, prior>>

StepBridgeValidator ==
  kind = "BridgeValidator" /\ Iteration(BridgeValidatorIter(m, dAtA, iNdEx))

StepValset == kind = "Valset" /\ Iteration(ValsetIter(m, dAtA, iNdEx))

StepGenericClaim ==
  kind = "GenericClaim" /\ Iteration(GenericClaimIter(m, dAtA, iNdEx))

\* The loop is left: if iNdEx > l { return io.ErrUnexpectedEOF }; return nil
ReturnUnmarshal ==
  /\ pc = "loop" /\ ~(iNdEx < Len(dAtA))
  /\ err' = UnmarshalEnd(dAtA, iNdEx)
  /\ pc' = "done"
  /\ UNCHANGED <<kind, origin, src, enc, parts, dAtA, prior, m, iNdEx>>

Next ==
  \/ MarshalBridgeValidator
  \/ MarshalValset
  \/ MarshalGenericClaim
  \/ Truncate
  \/ EnterUnmarshal
  \/ StepBridgeValidator
  \/ StepValset
  \/ StepGenericClaim
  \/ ReturnUnmarshal

Spec == Init /\ [][Next]_vars

\* ------------------------------------------------------------------------
\* The wire format the encoder is held to: each non-zero field as its tag,
\* then (length-delimited) its length, then its payload, in field order.

RefVarint(v) ==
  IF Len(v) <= 1 THEN <<Digit(v, 1)>>
  ELSE [k \in 1..Len(v) |-> IF k < Len(v) THEN v[k] + 128 ELSE v[k]]

RefBytes(tag, s) == <<tag>> \o RefVarint(FromNat(Len(s))) \o s

RECURSIVE Flatten(_)
Flatten(ss) == IF ss = <<>> THEN <<>> ELSE Head(ss) \o Flatten(Tail(ss))

OrNone(present, bytes) == IF present THEN <<bytes>> ELSE <<>>

RefBridgeValidator(r) ==
  OrNone(r.Power # <<>>, <<8>> \o RefVarint(r.Power))
  \o OrNone(r.EthereumAddress # <<>>, RefBytes(18, r.EthereumAddress))

RefMembers(ms) ==
  [k \in 1..Len(ms) |-> RefBytes(18, Flatten(RefBridgeValidator(ms[k])))]

\* The top-level fields of r's encoding, in wire order.
WireFields(k, r) ==
  CASE k = "BridgeValidator" -> RefBridgeValidator(r)
    [] k = "Valset" ->
         OrNone(r.Nonce # <<>>, <<8>> \o RefVarint(r.Nonce))
         \o RefMembers(r.Members)
         \o OrNone(r.Height # <<>>, <<24>> \o RefVarint(r.Height))
    [] k = "GenericClaim" ->
         OrNone(r.EventNonce # <<>>, <<8>> \o RefVarint(r.EventNonce))
         \o OrNone(r.ClaimType # 0, <<16>> \o RefVarint(Int32ToU64(r.ClaimType)))
         \o OrNone(r.Hash # <<>>, RefBytes(26, r.Hash))
         \o OrNone(r.EventClaimer # <<>>, RefBytes(34, r.EventClaimer))

\* The offsets at which a top-level field of r's encoding ends (0 included).
Boundaries(k, r) ==
  {Len(Flatten(SubSeq(WireFields(k, r), 1, j))) : j \in 0..Len(WireFields(k, r))}

\* ------------------------------------------------------------------------
\* Claims

\* C1: round trip.  Unmarshal, on a fresh zero-valued record, of the bytes
\* r.Marshal() returned succeeds and yields a record equal to r field for
\* field, for each of the three kinds (negative ClaimType and empty Members
\* included).
RoundTrip ==
  (pc = "done" /\ origin = "Marshal" /\ prior = Zero(kind)) =>
    (enc.err = Nil /\ err = Nil /\ m = src)

RoundTripWitness ==
  /\ pc = "done" /\ origin = "Marshal" /\ prior = Zero(kind)
  /\ kind = "GenericClaim" /\ src.ClaimType < 0 /\ src.Hash # <<>>
  /\ err = Nil /\ m = src

\* C2: exact fit.  MarshalToSizedBuffer on a buffer of exactly Size() bytes
\* returns n = Size() without error: the write offset ends at 0, no store
\* falls outside the buffer, and every byte of it is stored to.
ExactFit ==
  (pc # "made" /\ origin \in {"Marshal", "Prefix"}) =>
    /\ enc.err = Nil
    /\ enc.n = enc.size
    /\ enc.written = 0..(enc.size - 1)
    /\ enc.size = Len(Flatten(WireFields(kind, src)))

ExactFitWitness ==
  /\ pc = "wire" /\ origin = "Marshal" /\ kind = "Valset"
  /\ Len(src.Members) = 2 /\ src.Members[1].EthereumAddress # <<>>
  /\ src.Members[2] = BridgeValidatorZero
  /\ enc.n = enc.size /\ enc.size > 0

\* C3 as claimed: Unmarshal of every strict prefix of a non-empty encoding
\* returns io.ErrUnexpectedEOF.
TruncationAlwaysFails ==
  (pc = "done" /\ origin = "Prefix") => err = ErrUnexpectedEOF

\* C3 as amended: Unmarshal of a strict prefix returns io.ErrUnexpectedEOF
\* unless the prefix ends where a top-level field of the encoding ends (the
\* empty prefix included); then it returns nil.  It returns no other error.
TruncationFailsInsideField ==
  (pc = "done" /\ origin = "Prefix") =>
    err = (IF Len(dAtA) \in Boundaries(kind, src) THEN Nil ELSE ErrUnexpectedEOF)

TruncationWitness ==
  /\ pc = "done" /\ origin = "Prefix" /\ kind = "Valset"
  /\ Len(src.Members) = 2
  /\ Len(dAtA) \notin Boundaries(kind, src)
  /\ Len(m.Members) = 1
  /\ err = ErrUnexpectedEOF

\* ------------------------------------------------------------------------
\* What a hand-assembled buffer is meant to decode to

\* Every field is a known or an unknown one.
WellFormed(ps) == \A k \in 1..Len(ps) : ps[k].class \in {"known", "unknown"}

\* Where field k starts in Bytes(ps).
Offset(ps, k) == Len(Bytes(SubSeq(ps, 1, k - 1)))

\* ps without the fields of unrecognized field number.
RECURSIVE Recognized(_)
Recognized(ps) ==
  IF ps = <<>> THEN <<>>
  ELSE IF Head(ps).class = "unknown" THEN Recognized(Tail(ps))
  ELSE <<Head(ps)>> \o Recognized(Tail(ps))

\* rec after the known fields of ps, in order: a scalar field takes the
\* value carried, a member is appended.
RECURSIVE Apply(_, _)
Apply(rec, ps) ==
  IF ps = <<>> THEN rec
  ELSE LET f == Head(ps)
       IN Apply(IF f.class # "known" THEN rec
                ELSE IF f.name = "Members"
                  THEN [rec EXCEPT !.Members = @ \o f.rec.Members]
                ELSE [rec EXCEPT ![f.name] = f.rec[f.name]],
                Tail(ps))

ForwardCompatible ==
  (origin = "Fields" /\ WellFormed(parts)) =>
    /\ \A k \in 1..Len(parts) :
         parts[k].class = "unknown" =>
           Iter(kind, m, dAtA, Offset(parts, k))
             = Ret(m, Offset(parts, k) + Len(parts[k].bytes), Running)
    /\ pc = "loop" => \E k \in 1..(Len(parts) + 1) :
                        /\ iNdEx = Offset(parts, k)
                        /\ m = Apply(prior, SubSeq(parts, 1, k - 1))
    /\ pc = "done" =>
         /\ err = Nil
         /\ m = Apply(prior, parts)
         /\ m = Decode(kind, prior, Bytes(Recognized(parts))).m

ForwardCompatibleWitness ==
  /\ pc = "done" /\ origin = "Fields" /\ WellFormed(parts)
  /\ Len(parts) = 2
  /\ parts[1].class = "unknown" /\ parts[1].wire = 5
  /\ parts[2].class = "known"
  /\ err = Nil /\ m # prior

\* The field-2 entries of a Valset encoding, in wire order: the payloads of
\* the top-level fields tagged 0x12.  (The encoder writes one-byte tags and,
\* within the bounds, one-byte lengths; a varint field ends at its first
\* byte below 0x80.)
RECURSIVE VarintEnd(_, _)
VarintEnd(buf, i) ==
  IF i > Len(buf) THEN i ELSE IF buf[i] < 128 THEN i ELSE VarintEnd(buf, i + 1)

RECURSIVE TopFields(_, _)
TopFields(buf, i) ==
  IF i > Len(buf) THEN <<>>
  ELSE IF buf[i] % 8 = 2
    THEN <<[tag |-> buf[i], payload |-> SubSeq(buf, i + 2, i + 1 + buf[i + 1])]>>
         \o TopFields(buf, i + 2 + buf[i + 1])
  ELSE <<[tag |-> buf[i], payload |-> SubSeq(buf, i + 1, VarintEnd(buf, i + 1))]>>
       \o TopFields(buf, VarintEnd(buf, i + 1) + 1)

RECURSIVE Select(_, _)
Select(fs, tag) ==
  IF fs = <<>> THEN <<>>
  ELSE IF Head(fs).tag = tag THEN <<Head(fs).payload>> \o Select(Tail(fs), tag)
  ELSE Select(Tail(fs), tag)

\* C6: member order.  The field-2 entries of a Valset's encoding are its
\* members m1..mk in that order, and Unmarshal appends members in the order
\* they occur on the wire: decoding the encoding yields Members = [m1..mk].
MemberOrder ==
  (kind = "Valset" /\ origin = "Marshal" /\ pc # "made") =>
    /\ Select(TopFields(enc.dAtA, 1), 18)
         = [k \in 1..Len(src.Members) |-> Flatten(RefBridgeValidator(src.Members[k]))]
    /\ enc.dAtA = Flatten(WireFields(kind, src))
    /\ (pc = "done" => m.Members = prior.Members \o src.Members)

MemberOrderWitness ==
  /\ kind = "Valset" /\ origin = "Marshal" /\ pc = "done"
  /\ prior = ValsetZero
  /\ Len(src.Members) = 2 /\ src.Members[1] # src.Members[2]
  /\ m.Members = src.Members

\* The names of the fields of r that differ from their zero value.
NonZero(k, r) == {f \in DOMAIN r : r[f] # Zero(k)[f]}

TagOf(k, f) ==
  CASE f \in {"Power", "Nonce", "EventNonce"} -> 8
    [] f = "ClaimType" -> 16
    [] f \in {"EthereumAddress", "Members"} -> 18
    [] f = "Height" -> 24
    [] f = "Hash" -> 26
    [] f = "EventClaimer" -> 34

\* C7: zero-value suppression.  A field's tag is in Marshal's output iff
\* the field differs from its zero value; a record whose fields are all zero
\* has Size() 0 and encodes to no bytes; Unmarshal of no bytes into a fresh
\* record succeeds and leaves every field zero.
ZeroSuppression ==
  /\ (origin = "Marshal" /\ pc # "made") =>
       /\ enc.err = Nil
       /\ {TopFields(enc.dAtA, 1)[j].tag : j \in 1..Len(TopFields(enc.dAtA, 1))}
            = {TagOf(kind, f) : f \in NonZero(kind, src)}
       /\ (src = Zero(kind) => enc.size = 0 /\ enc.dAtA = <<>>)
  /\ (pc = "done" /\ dAtA = <<>> /\ prior = Zero(kind)) =>
       (err = Nil /\ m = Zero(kind))

ZeroSuppressionWitness ==
  /\ origin = "Marshal" /\ pc = "done" /\ kind = "BridgeValidator"
  /\ src = BridgeValidatorZero /\ prior = BridgeValidatorZero
  /\ enc.dAtA = <<>> /\ dAtA = <<>>
  /\ err = Nil /\ m = BridgeValidatorZero

\* The names of the fields that occur in dAtA, as the bytes were made.
Present ==
  IF origin = "Fields"
    THEN {parts[k].name : k \in {j \in 1..Len(parts) : parts[j].class = "known"}}
    ELSE NonZero(kind, src)

\* C8 as claimed: after a successful Unmarshal on a record in any prior
\* state, every field that does not occur in the bytes holds its zero value.
AbsentImpliesZero ==
  (pc = "done" /\ err = Nil /\ origin \in {"Marshal", "Fields"}) =>
    \A f \in DOMAIN m : f \notin Present => m[f] = Zero(kind)[f]

\* C8 as amended: Unmarshal does not reset the receiver.  After a
\* successful Unmarshal every field that does not occur in the bytes holds
\* the value it had before the call (its zero value only if the receiver was
\* fresh), and Members holds the members it had before the call followed by
\* the decoded ones.
AbsentKeepsPrior ==
  (pc = "done" /\ err = Nil /\ origin \in {"Marshal", "Fields"}) =>
    /\ \A f \in DOMAIN m : f \notin Present => m[f] = prior[f]
    /\ kind = "Valset" =>
         m.Members = prior.Members \o
                       (IF origin = "Fields" THEN Apply(ValsetZero, parts).Members
                        ELSE src.Members)

AbsentKeepsPriorWitness ==
  /\ pc = "done" /\ err = Nil /\ origin = "Marshal" /\ kind = "Valset"
  /\ prior = Used(kind)
  /\ src.Nonce = <<>> /\ src.Height # <<>> /\ Len(src.Members) = 1
  /\ m.Nonce = prior.Nonce /\ m.Height = src.Height /\ Len(m.Members) = 2

\* The values Unmarshal returns: nil or an error.
Returned ==
  { Nil, ErrUnexpectedEOF, ErrIntOverflowTypes, ErrInvalidLengthTypes,
    ErrUnexpectedEndOfGroupTypes, ErrEndGroup, ErrIllegalTag, ErrWrongWireType,
    ErrIllegalWireType }

\* C9: no crash on untrusted input.  For every byte sequence and record
\* kind, no read or slice of Unmarshal or skipTypes is out of range (also
\* after a decoded length or a fixed 4 or 8 byte skip is added to the
\* cursor): Unmarshal returns nil or an error, and every iteration of its
\* loop that does not return leaves the cursor strictly greater and within
\* the buffer.
NoCrash ==
  /\ err # Panic
  /\ (pc = "done" /\ enc.err = Nil) => err \in Returned
  /\ pc = "loop" => (0 <= iNdEx /\ iNdEx <= Len(dAtA))
  /\ (pc = "loop" /\ iNdEx < Len(dAtA)) =>
       LET r == Iter(kind, m, dAtA, iNdEx)
       IN /\ r.err \in (Returned \ {Nil}) \cup {Running}
          /\ r.err = Running => (iNdEx < r.iNdEx /\ r.iNdEx <= Len(dAtA))
  /\ \A p \in 0..Len(dAtA) :
       skipTypes(Slice(dAtA, p, Len(dAtA))).err \in Returned

\* A skipped length of 2^63-11 after a first field: skipTypes returns
\* 2^63-1 and the cursor plus it overflows.
NoCrashWitness ==
  /\ pc = "done" /\ origin = "Fields" /\ Len(parts) = 2
  /\ parts[1].class = "known"
  /\ parts[2].bytes = <<42, 245>> \o Rep(255, 7) \o <<127>>
  /\ iNdEx = Offset(parts, 2)
  /\ err = ErrInvalidLengthTypes

\* The n bytes from index p on all carry the continuation bit.
AllCont(buf, p, n) == p + n <= Len(buf) /\ \A j \in 1..n : buf[p + j] >= 128

\* The first index from p on whose byte has no continuation bit.
RECURSIVE Terminator(_, _)
Terminator(buf, p) == IF buf[p + 1] < 128 THEN p ELSE Terminator(buf, p + 1)

\* What a varint read at p must give: overflow after ten continuation
\* bytes, unexpected end when the buffer ends first, else the cursor after
\* the first byte without continuation bit.
VarintExpected(buf, p) ==
  IF AllCont(buf, p, 10) THEN [err |-> ErrIntOverflowTypes, iNdEx |-> p + 10]
  ELSE IF AllCont(buf, p, Len(buf) - p)
    THEN [err |-> ErrUnexpectedEOF, iNdEx |-> Len(buf)]
  ELSE [err |-> Nil, iNdEx |-> Terminator(buf, p) + 1]

\* C10: varint read outcome.  Every varint read (tag, value, length, and the
\* varint skipTypes skips) consumes at most 10 bytes; it returns the integer
\* overflow error when the first 10 bytes at the cursor all carry the
\* continuation bit, and the unexpected-end error when the buffer ends
\* before a byte without it is found within fewer than 10 bytes.
VarintOutcome ==
  /\ \A p \in 0..Len(dAtA) :
       LET r == ReadVarint(dAtA, p)
           s == SkipVarintLoop(dAtA, p, 0)
       IN /\ r.iNdEx - p <= 10 /\ s.iNdEx - p <= 10
          /\ [err |-> r.err, iNdEx |-> r.iNdEx] = VarintExpected(dAtA, p)
          /\ s = VarintExpected(dAtA, p)
  /\ (pc = "loop" /\ iNdEx < Len(dAtA)) =>
       /\ AllCont(dAtA, iNdEx, 10) =>
            Iter(kind, m, dAtA, iNdEx).err = ErrIntOverflowTypes
       /\ (~AllCont(dAtA, iNdEx, 10) /\ AllCont(dAtA, iNdEx, Len(dAtA) - iNdEx)) =>
            Iter(kind, m, dAtA, iNdEx).err = ErrUnexpectedEOF

VarintOutcomeWitness ==
  /\ pc = "done" /\ origin = "Fields" /\ Len(parts) = 2
  /\ parts[1].class = "known"
  /\ AllCont(dAtA, Offset(parts, 2) + 1, 10)
  /\ parts[2].num = 1
  /\ err = ErrIntOverflowTypes

\* The index after the varint that starts at index p.
TagEnd(buf, p) == VarintExpected(buf, p).iNdEx

\* The j-th 7-bit group of the tag that starts at index p.
TagDigit(buf, p, j) == IF p + j <= TagEnd(buf, p) THEN buf[p + j] % 128 ELSE 0

\* A whole tag starts at p whose wire type (bits 0..2) is 4, or whose field
\* number, bits 3..34 of the tag as a signed 32-bit integer, is negative
\* (bit 34 set) or zero (bits 3..34 clear).
IllegalTagAt(buf, p) ==
  /\ p < Len(buf) /\ VarintExpected(buf, p).err = Nil
  /\ \/ buf[p + 1] % 8 = 4
     \/ TagDigit(buf, p, 5) >= 64
     \/ /\ TagDigit(buf, p, 1) \div 8 = 0
        /\ \A j \in 2..4 : TagDigit(buf, p, j) = 0
        /\ TagDigit(buf, p, 5) % 64 = 0

\* The error an illegal tag gives: the end-group test comes first.
IllegalTagError(buf, p) == IF buf[p + 1] % 8 = 4 THEN ErrEndGroup ELSE ErrIllegalTag

\* C11: illegal tags are rejected.  Whenever Unmarshal of any of the three
\* record kinds reads a tag whose wire type is 4, or whose field number
\* (tag >> 3 as a signed 32-bit integer) is <= 0, it returns an error at
\* once: the cursor is just after the tag, so the payload is not consumed,
\* and the receiver is as it was, so no known field was decoded; the
\* result is not that of the skip routine.
IllegalTagRejected ==
  /\ \A k \in Kinds, p \in 0..Len(dAtA) :
       IllegalTagAt(dAtA, p) =>
         Iter(k, Used(k), dAtA, p) =
           Ret(Used(k), TagEnd(dAtA, p), IllegalTagError(dAtA, p))
  /\ (pc = "loop" /\ IllegalTagAt(dAtA, iNdEx)) =>
       Iter(kind, m, dAtA, iNdEx) =
         Ret(m, TagEnd(dAtA, iNdEx), IllegalTagError(dAtA, iNdEx))
  /\ ( /\ pc = "done" /\ origin = "Fields" /\ parts # <<>>
       /\ WellFormed(SubSeq(parts, 1, Len(parts) - 1))
       /\ IllegalTagAt(dAtA, Offset(parts, Len(parts))) ) =>
       /\ err = IllegalTagError(dAtA, Offset(parts, Len(parts)))
       /\ iNdEx = TagEnd(dAtA, Offset(parts, Len(parts)))
       /\ m = Decode(kind, prior, Bytes(SubSeq(parts, 1, Len(parts) - 1))).m

\* After a first field, a tag of field number 2^31 (-2^31 as an int32).
IllegalTagWitness ==
  /\ pc = "done" /\ origin = "Fields" /\ Len(parts) = 2
  /\ parts[1].class = "known" /\ parts[1].rec # Zero(kind)
  /\ parts[2].bytes = <<128, 128, 128, 128, 64, 1>>
  /\ IllegalTagAt(dAtA, Offset(parts, 2))
  /\ m = parts[1].rec
  /\ iNdEx = Offset(parts, 2) + 5
  /\ err = ErrIllegalTag

\* A whole tag of wire type 3 starts at index p.
GroupStartAt(buf, p) ==
  p < Len(buf) /\ VarintExpected(buf, p).err = Nil /\ buf[p + 1] % 8 = 3

\* What the tag at index pre does to the depth counter.
DepthStep(buf, pre) ==
  IF buf[pre + 1] % 8 = 3 THEN 1 ELSE IF buf[pre + 1] % 8 = 4 THEN -1 ELSE 0

\* The field numbers the record kind knows.
KnownNums(k) ==
  IF k = "BridgeValidator" THEN {1, 2} ELSE IF k = "Valset" THEN {1, 2, 3}
  ELSE {1, 2, 3, 4}

\* skipTypes entered on buf, whose first tag is a start-group tag: tr is the
\* trace of its loop and s its result.
GroupSkipped(buf, tr, s) ==
  /\ tr # <<>> /\ tr[1].pre = 0 /\ tr[1].depth = 1
  /\ \A j \in 1..Len(tr) :
       /\ tr[j].depth >= 0
       /\ tr[j].depth =
            (IF j = 1 THEN 0 ELSE tr[j - 1].depth) + DepthStep(buf, tr[j].pre)
       /\ j > 1 => FromNat(tr[j].pre) = tr[j - 1].idx
       /\ tr[j].depth = 0 => j = Len(tr)
  /\ IF tr[Len(tr)].depth = 0
       THEN /\ s = SkipRet(tr[Len(tr)].idx, Nil)
            /\ buf[tr[Len(tr)].pre + 1] % 8 = 4
            /\ s.n = FromNat(TagEnd(buf, tr[Len(tr)].pre))
       ELSE /\ s.err \in Returned \ {Nil}
            /\ I64Gt(tr[Len(tr)].idx, Len(buf) - 1) => s.err = ErrUnexpectedEOF

\* C12: group skip closes at depth 0.  When skipTypes is entered on an
\* unknown field with start-group wire type 3, the depth counter goes up by
\* one on each start-group tag and down by one on each end-group tag and is
\* never negative; skipTypes returns success only at the first position
\* where the counter is back to 0, with the number of bytes through the
\* matching end-group tag; if the buffer ends while the counter is above 0,
\* skipTypes and the enclosing Unmarshal fail with an error.
GroupSkip ==
  /\ \A p \in 0..Len(dAtA) :
       GroupStartAt(dAtA, p) =>
         GroupSkipped(Slice(dAtA, p, Len(dAtA)),
                      SkipTrace(Slice(dAtA, p, Len(dAtA)), 0, 0),
                      skipTypes(Slice(dAtA, p, Len(dAtA))))
  /\ ( /\ pc = "loop" /\ GroupStartAt(dAtA, iNdEx)
       /\ ReadTag(dAtA, iNdEx).err = Running
       /\ ReadTag(dAtA, iNdEx).fieldNum \notin KnownNums(kind) ) =>
       LET s == skipTypes(Slice(dAtA, iNdEx, Len(dAtA)))
           r == Iter(kind, m, dAtA, iNdEx)
       IN IF s.err = Nil
            THEN r = Ret(m, iNdEx + ToNat(s.n), Running)
            ELSE r.err = s.err /\ r.m = m
  /\ ( /\ pc = "done" /\ origin = "Fields" /\ parts # <<>>
       /\ WellFormed(SubSeq(parts, 1, Len(parts) - 1))
       /\ parts[Len(parts)].class = "bad" /\ parts[Len(parts)].wire = 3 ) =>
       err = ErrUnexpectedEOF

\* A group of field 5 that holds a group of field 6 and a payload byte equal
\* to an end-group tag is skipped whole, and the field after it is decoded.
GroupSkipWitness ==
  /\ pc = "done" /\ origin = "Fields" /\ Len(parts) = 2
  /\ parts[1].bytes = <<43, 51, 42, 1, 44, 52, 44>>
  /\ parts[2].class = "known" /\ parts[2].rec # Zero(kind)
  /\ skipTypes(dAtA) = SkipRet(<<7>>, Nil)
  /\ Len(SkipTrace(dAtA, 0, 0)) = 5
  /\ prior = Zero(kind) /\ m = parts[2].rec
  /\ err = Nil

====
